---- MODULE Spec2Model ----
(***************************************************************************)
(* Claim-processing pipeline of the insurance agent: the LangGraph         *)
(* workflow of app/agent/graph.py, the tools of app/agent/tools.py it      *)
(* calls, and process_claim of app/main.py that starts one run.            *)
(*                                                                         *)
(* The completion service (llm.invoke) and the retrieval store             *)
(* (policy_store.retrieve) are collaborators: every answer they can give   *)
(* is a nondeterministic input of the node that calls them.                *)
(***************************************************************************)
EXTENDS Integers, Sequences, FiniteSets, TLC

(***************************************************************************)
(* Python values.  One record shape for every value so that values of      *)
(* different Python types can be compared: t is the type, and the field    *)
(* that belongs to the type holds the value.  "absent" is a key that is    *)
(* not in a dict, which is not the same as a key holding None.             *)
(***************************************************************************)
Absent == [t |-> "absent", b |-> FALSE, n |-> 0, s |-> "", l |-> <<>>]

PyNone == [t |-> "none", b |-> FALSE, n |-> 0, s |-> "", l |-> <<>>]

PyBool(x) == [t |-> "bool", b |-> x, n |-> 0, s |-> "", l |-> <<>>]

PyNum(x) == [t |-> "num", b |-> FALSE, n |-> x, s |-> "", l |-> <<>>]

PyStr(x) == [t |-> "str", b |-> FALSE, n |-> 0, s |-> x, l |-> <<>>]

PyList(x) == [t |-> "list", b |-> FALSE, n |-> 0, s |-> "", l |-> x]

\* bool(v): the truth value Python gives a value in `if v` and `v or 0`
Truthy(v) ==
    CASE v.t = "bool" -> v.b
      [] v.t = "num"  -> v.n # 0
      [] v.t = "str"  -> v.s # ""
      [] v.t = "list" -> v.l # <<>>
      [] OTHER        -> FALSE

\* d.get(k): None when the key is missing
Get(d, k) == IF d[k].t = "absent" THEN PyNone ELSE d[k]

\* d.get(k, default): the default only when the key is missing, a key that
\* holds None yields None
GetDefault(d, k, default) == IF d[k].t = "absent" THEN default ELSE d[k]

(***************************************************************************)
(* Bounds of the model                                                     *)
(***************************************************************************)
\* longest list of queries the completion service replies with
MaxQueries == 4

(***************************************************************************)
(* Program constants                                                       *)
(***************************************************************************)
\* price_check_node flags amounts above this
HighAmount == 10000

\* top_k passed to policy_store.retrieve
TopK == 3

\* separator of the per-query results in retrieve_policy_text
Delimiter == "\n\n---\n\n"

\* str(e) of an exception raised by a collaborator call or by extract_json
ErrMsg == "Connection error"

(***************************************************************************)
(* ClaimState: the keys of the record threaded through the graph.          *)
(***************************************************************************)
ClaimState ==
    {"claim_json", "claim_id", "invoice_items", "vendor_name", "claim_amount",
     "policy_holder", "is_valid", "validation_reason", "policy_queries",
     "retrieved_policy_text", "recommendation", "recommendation_reasoning",
     "price_check_result", "final_decision", "final_reasoning", "current_step"}

\* the claim submitted by the caller, as json.dumps(claim_data) gives it
ClaimJson == "{claim}"

VARIABLES
    state,        \* the ClaimState dict of the run: key -> Python value
    pc,           \* the node the graph runs next, "END", or "RAISED" when an
                  \* exception left claims_graph.invoke
    trace,        \* the nodes that have returned, in order
    router_calls, \* evaluations of should_continue_after_validation
    llm_log,      \* what each call of llm.invoke made so far has answered
    retr_calls,   \* calls of policy_store.retrieve made so far
    retr_topk,    \* top_k of the last call of policy_store.retrieve, 0 if none
    retr_log,     \* the calls of policy_store.retrieve made so far: the query,
                  \* top_k and what the store did
    fd_writes,    \* assignments to state["final_decision"] made so far
    input,        \* the record claims_graph.invoke was called with
    other,        \* a second run of claims_graph.invoke, in another thread,
                  \* while that thread is not the one running
    cancelled,    \* the caller of process_claim has given the run up
    text,         \* the response content extract_json was called with
    extracted     \* what extract_json has got so far

vars == <<state, pc, trace, router_calls, llm_log, retr_calls, retr_topk,
          retr_log, fd_writes, input, other, cancelled, text, extracted>>

(***************************************************************************)
(* Collaborator answers.  A call of the completion service raises, or      *)
(* returns text from which extract_json gets nothing ("garbage"), or       *)
(* returns text from which extract_json gets a JSON value; the value is a  *)
(* dict with the keys of d (dict = TRUE) or something else.                *)
(***************************************************************************)
Raise(d) == [kind |-> "raise", dict |-> FALSE, d |-> d]

Garbage(d) == [kind |-> "garbage", dict |-> FALSE, d |-> d]

NonDict(d) == [kind |-> "json", dict |-> FALSE, d |-> d]

Dict(d) == [kind |-> "json", dict |-> TRUE, d |-> d]

\* the tool's try block ends in its except clause: llm.invoke raised,
\* extract_json raised, or .get was called on a value that is not a dict
ToolFails(resp) == resp.kind # "json" \/ ~resp.dict

\* one call of llm.invoke, answered by resp
LlmCall(resp) == llm_log' = Append(llm_log, resp)

NoLlmCall == UNCHANGED llm_log

NoRetrieval == UNCHANGED <<retr_calls, retr_topk, retr_log>>

\* a node reads and writes the state of its own run: it has no access to
\* another run, it takes no cancellation request, and extract_json keeps
\* nothing between calls
OwnRunOnly == UNCHANGED <<other, cancelled, text, extracted>>

\* extract_json has returned nothing yet
NoResult == [ok |-> FALSE, value |-> <<>>]

(***************************************************************************)
(* process_claim: the initial state holds claim_json and current_step only *)
(***************************************************************************)
initial_state ==
    [k \in ClaimState |->
        CASE k = "claim_json"   -> PyStr(ClaimJson)
          [] k = "current_step" -> PyStr("initialized")
          [] OTHER              -> Absent]

\* a run of claims_graph.invoke(record) that has not made a step yet
NewRun(record) ==
    [input |-> record, state |-> record, pc |-> "parse_claim", trace |-> <<>>,
     router_calls |-> 0, llm_log |-> <<>>, retr_calls |-> 0, retr_topk |-> 0,
     retr_log |-> <<>>, fd_writes |-> 0]

\* no second run
NoRun == [NewRun(initial_state) EXCEPT !.pc = "NONE"]

\* claims_graph.invoke(record): the run starts at the entry point, whatever
\* the record holds
Invoke(record) ==
    /\ input = record
    /\ state = record
    /\ pc = "parse_claim"
    /\ trace = <<>>
    /\ router_calls = 0
    /\ llm_log = <<>>
    /\ retr_calls = 0
    /\ retr_topk = 0
    /\ retr_log = <<>>
    /\ fd_writes = 0
    /\ cancelled = FALSE
    /\ text = <<>>
    /\ extracted = NoResult

Init == Invoke(initial_state) /\ other = NoRun

(***************************************************************************)
(* Node 1: parse                                                           *)
(***************************************************************************)
ParsedKeys == {"claim_id", "policy_holder", "vendor_name", "invoice_items", "claim_amount"}

NoParsedData == [k \in ParsedKeys |-> Absent]

Amounts ==
    {Absent, PyNum(0), PyNum(50), PyNum(HighAmount), PyNum(HighAmount + 1), PyStr("550.00")}

\* claim_id, policy_holder and vendor_name of a reply: all three given, or
\* one of them missing, null or empty
Parties ==
    {<<PyStr("CLM-1"), PyStr("Jane"), PyStr("AutoFix")>>,
     <<Absent, PyStr("Jane"), PyStr("AutoFix")>>,
     <<PyStr("CLM-1"), PyNone, PyStr("AutoFix")>>,
     <<PyStr("CLM-1"), PyStr("Jane"), PyStr("")>>}

\* what the completion service can answer to PARSE_CLAIM_PROMPT
ParseResponses ==
    {Raise(NoParsedData), Garbage(NoParsedData), NonDict(NoParsedData)} \cup
    {Dict([claim_id |-> p[1], policy_holder |-> p[2], vendor_name |-> p[3],
           invoice_items |-> PyList(<<"Oil Change">>), claim_amount |-> a]) :
        p \in Parties, a \in Amounts}

\* parse_claim whose except clause fills in placeholders
parse_claim_placeholders(resp) ==
    IF ToolFails(resp)
    THEN [NoParsedData EXCEPT !["claim_id"] = PyStr("N/A"), !["claim_amount"] = PyNum(0)]
    ELSE resp.d

\* the dict parse_claim returns: the decoded reply, or {"error": str(e)},
\* which has none of the keys the node reads
parse_claim(resp) == IF ToolFails(resp) THEN NoParsedData ELSE resp.d

parse_claim_node ==
    /\ pc = "parse_claim"
    /\ OwnRunOnly
    /\ \E resp \in ParseResponses :
         LET result == parse_claim(resp) IN
         /\ state' = [state EXCEPT
                !["claim_id"] = Get(result, "claim_id"),
                !["policy_holder"] = Get(result, "policy_holder"),
                !["vendor_name"] = Get(result, "vendor_name"),
                !["invoice_items"] = Get(result, "invoice_items"),
                !["claim_amount"] = Get(result, "claim_amount"),
                !["current_step"] = PyStr("parsed")]
         /\ LlmCall(resp)
    /\ pc' = "validate_claim"
    /\ trace' = Append(trace, "parse_claim")
    /\ NoRetrieval
    /\ UNCHANGED <<router_calls, fd_writes, input>>

(***************************************************************************)
(* Node 2: validate, and the conditional edge after it                     *)
(***************************************************************************)
NoVerdict == [is_valid |-> Absent, reason |-> Absent]

\* what the completion service can answer to VALIDATE_CLAIM_PROMPT
ValidateResponses ==
    {Raise(NoVerdict), Garbage(NoVerdict), NonDict(NoVerdict)} \cup
    {Dict([is_valid |-> v, reason |-> r]) :
        v \in {Absent, PyNone, PyBool(TRUE), PyBool(FALSE), PyStr("false")},
        r \in {Absent, PyStr("Claim amount must be greater than 0")}}

\* is_valid_query with an except clause that lets the claim through
is_valid_query_fail_open(resp) ==
    IF ToolFails(resp)
    THEN [is_valid |-> PyBool(TRUE), reason |-> PyStr("")]
    ELSE resp.d

\* is_valid_query that returns the error verdict whatever the reply was
is_valid_query_discarded(resp) ==
    [is_valid |-> PyBool(FALSE), reason |-> PyStr("Validation error: " \o ErrMsg)]

\* is_valid_query whose except clause gives no reason
is_valid_query_no_reason(resp) ==
    IF ToolFails(resp)
    THEN [is_valid |-> PyBool(FALSE), reason |-> PyStr("")]
    ELSE resp.d

is_valid_query(resp) ==
    IF ToolFails(resp)
    THEN [is_valid |-> PyBool(FALSE), reason |-> PyStr("Validation error: " \o ErrMsg)]
    ELSE resp.d

validate_claim_node ==
    /\ pc = "validate_claim"
    /\ OwnRunOnly
    /\ \E resp \in ValidateResponses :
         LET result == is_valid_query(resp) IN
         /\ state' = [state EXCEPT
                !["is_valid"] = GetDefault(result, "is_valid", PyBool(FALSE)),
                !["validation_reason"] = GetDefault(result, "reason", PyStr("")),
                !["current_step"] = PyStr("validated")]
         /\ LlmCall(resp)
    /\ pc' = "route"
    /\ trace' = Append(trace, "validate_claim")
    /\ NoRetrieval
    /\ UNCHANGED <<router_calls, fd_writes, input>>

\* the conditional edge testing `is not None` instead of the truth value
should_continue_unless_none(st) ==
    IF st["is_valid"].t # "none" THEN "continue" ELSE "invalid"

\* the conditional edge: "continue" or "invalid"
should_continue_after_validation(st) ==
    IF Truthy(st["is_valid"]) THEN "continue" ELSE "invalid"

\* the mapping with its two targets exchanged
ConditionalEdgeSwapped(branch) ==
    IF branch = "continue" THEN "invalid_claim" ELSE "generate_queries"

\* the mapping of add_conditional_edges
ConditionalEdge(branch) ==
    IF branch = "continue" THEN "generate_queries" ELSE "invalid_claim"

\* the conditional edge also stamping the record with its own stage name
route_stamps_step ==
    /\ pc = "route"
    /\ OwnRunOnly
    /\ pc' = ConditionalEdge(should_continue_after_validation(state))
    /\ router_calls' = router_calls + 1
    /\ state' = [state EXCEPT !["current_step"] = PyStr("routed")]
    /\ NoLlmCall
    /\ NoRetrieval
    /\ UNCHANGED <<trace, fd_writes, input>>

route ==
    /\ pc = "route"
    /\ OwnRunOnly
    /\ pc' = ConditionalEdge(should_continue_after_validation(state))
    /\ router_calls' = router_calls + 1
    /\ NoLlmCall
    /\ NoRetrieval
    /\ UNCHANGED <<state, trace, fd_writes, input>>

(***************************************************************************)
(* Terminal node of the reject branch                                      *)
(***************************************************************************)
\* invalid_claim_node that does not copy the validation reason
invalid_claim_node_no_reason ==
    /\ pc = "invalid_claim"
    /\ OwnRunOnly
    /\ state' = [state EXCEPT
           !["final_decision"] = PyStr("INVALID"),
           !["final_reasoning"] = PyStr(""),
           !["current_step"] = PyStr("completed")]
    /\ fd_writes' = fd_writes + 1
    /\ pc' = "END"
    /\ trace' = Append(trace, "invalid_claim")
    /\ NoLlmCall
    /\ NoRetrieval
    /\ UNCHANGED <<router_calls, input>>

invalid_claim_node ==
    /\ pc = "invalid_claim"
    /\ OwnRunOnly
    /\ state' = [state EXCEPT
           !["final_decision"] = PyStr("INVALID"),
           !["final_reasoning"] = state["validation_reason"],
           !["current_step"] = PyStr("completed")]
    /\ fd_writes' = fd_writes + 1
    /\ pc' = "END"
    /\ trace' = Append(trace, "invalid_claim")
    /\ NoLlmCall
    /\ NoRetrieval
    /\ UNCHANGED <<router_calls, input>>

\* an exception leaves the node: LangGraph lets it through, claims_graph.invoke
\* raises, and process_claim logs it and raises it again
NodeRaises ==
    /\ pc' = "RAISED"
    /\ UNCHANGED <<state, trace, router_calls, fd_writes, input>>

\* the args_schema a @tool builds from the signature rejects an argument that
\* is not of the annotated type, before the body of the tool runs
IsStrArg(v) == v.t = "str"

IsListOfStrArg(v) == v.t = "list"

(***************************************************************************)
(* Node 3: query generation                                                *)
(***************************************************************************)
Query(i) == "policy query " \o ToString(i)

Queries(n) == PyList([i \in 1..n |-> Query(i)])

QueryLists == {Queries(n) : n \in 0..MaxQueries}

NoQueries == [queries |-> Absent, value |-> Absent]

\* what the completion service can answer to GENERATE_POLICY_QUERIES_PROMPT:
\* a JSON array, another bare JSON value, or an object with or without the
\* key "queries"
QueryResponses ==
    {Raise(NoQueries), Garbage(NoQueries)} \cup
    {NonDict([queries |-> Absent, value |-> v]) :
        v \in QueryLists \cup {PyStr("coverage limits"), PyNum(3)}} \cup
    {Dict([queries |-> v, value |-> Absent]) :
        v \in {Absent, PyNone, Queries(1)}}

\* len(queries) and enumerate(queries) raise TypeError unless queries is sized
HasLen(v) == v.t \in {"list", "str"}

\* generate_policy_queries whose except clause returns None
generate_policy_queries_none(resp) ==
    IF resp.kind # "json" THEN PyNone
    ELSE LET queries == IF resp.dict
                        THEN GetDefault(resp.d, "queries", PyList(<<>>))
                        ELSE resp.d["value"]
         IN IF HasLen(queries) THEN queries ELSE PyNone

generate_policy_queries(resp) ==
    IF resp.kind # "json" THEN PyList(<<>>)
    ELSE LET queries == IF resp.dict
                        THEN GetDefault(resp.d, "queries", PyList(<<>>))
                        ELSE resp.d["value"]
         IN IF HasLen(queries) THEN queries ELSE PyList(<<>>)

generate_queries_node ==
    /\ pc = "generate_queries"
    /\ OwnRunOnly
    /\ \E resp \in QueryResponses :
         /\ state' = [state EXCEPT
                !["policy_queries"] = generate_policy_queries(resp),
                !["current_step"] = PyStr("queries_generated")]
         /\ LlmCall(resp)
    /\ pc' = "retrieve_policy"
    /\ trace' = Append(trace, "generate_queries")
    /\ NoRetrieval
    /\ UNCHANGED <<router_calls, fd_writes, input>>

(***************************************************************************)
(* Node 4: retrieval                                                       *)
(***************************************************************************)
\* what one call of policy_store.retrieve can do: raise, find nothing, or
\* return the matching chunks joined
RetrieveOutcomes == {"raise", "empty", "hit"}

PolicyText(query) == "policy text for " \o query

\* PolicyVectorStore.retrieve
retrieve(query, outcome) == IF outcome = "hit" THEN PolicyText(query) ELSE ""

RECURSIVE Join(_, _)
\* delim.join(parts)
Join(delim, parts) ==
    IF parts = <<>> THEN ""
    ELSE IF Len(parts) = 1 THEN parts[1]
    ELSE parts[1] \o delim \o Join(delim, Tail(parts))

\* the loop without `if result`: every result is appended
AllResultsUnfiltered(queries, outcomes) ==
    [i \in 1..Len(queries) |-> retrieve(queries[i], outcomes[i])]

\* the results the loop appends to all_results: the non-empty ones, in order
AllResults(queries, outcomes) ==
    LET results == [i \in 1..Len(queries) |-> retrieve(queries[i], outcomes[i])]
    IN SelectSeq(results, LAMBDA r : r # "")

\* the index of the first call of policy_store.retrieve that raises, 0 if none
FirstRaise(outcomes) ==
    IF \E i \in DOMAIN outcomes : outcomes[i] = "raise"
    THEN CHOOSE i \in DOMAIN outcomes :
            /\ outcomes[i] = "raise"
            /\ \A j \in 1..(i - 1) : outcomes[j] # "raise"
    ELSE 0

\* the except clause returning what the loop had gathered before the raise
retrieve_policy_text_keeps_partial(queries, outcomes) ==
    IF FirstRaise(outcomes) # 0
    THEN Join(Delimiter,
              AllResults(SubSeq(queries, 1, FirstRaise(outcomes) - 1),
                         [i \in 1..(FirstRaise(outcomes) - 1) |-> outcomes[i]]))
    ELSE Join(Delimiter, AllResults(queries, outcomes))

retrieve_policy_text(queries, outcomes) ==
    IF FirstRaise(outcomes) # 0 THEN ""
    ELSE Join(Delimiter, AllResults(queries, outcomes))

\* the calls of policy_store.retrieve one run of the loop makes
RetrieveCalls(outcomes) ==
    IF FirstRaise(outcomes) # 0 THEN FirstRaise(outcomes) ELSE Len(outcomes)

\* the calls of policy_store.retrieve one run of the loop makes, in order
RetrieveLog(queries, outcomes) ==
    [i \in 1..RetrieveCalls(outcomes) |->
        [query |-> queries[i], top_k |-> TopK, outcome |-> outcomes[i]]]

retrieve_policy_node ==
    /\ pc = "retrieve_policy"
    /\ OwnRunOnly
    /\ NoLlmCall
    /\ IF IsListOfStrArg(state["policy_queries"])
       THEN \E outcomes \in [1..Len(state["policy_queries"].l) -> RetrieveOutcomes] :
              /\ state' = [state EXCEPT
                     !["retrieved_policy_text"] =
                         PyStr(retrieve_policy_text(state["policy_queries"].l, outcomes)),
                     !["current_step"] = PyStr("policy_retrieved")]
              /\ retr_calls' = retr_calls + RetrieveCalls(outcomes)
              /\ retr_topk' = IF RetrieveCalls(outcomes) > 0 THEN TopK ELSE retr_topk
              /\ retr_log' = retr_log \o RetrieveLog(state["policy_queries"].l, outcomes)
              /\ pc' = "recommendation"
              /\ trace' = Append(trace, "retrieve_policy")
              /\ UNCHANGED <<router_calls, fd_writes, input>>
       ELSE NodeRaises /\ NoRetrieval

(***************************************************************************)
(* Node 5: recommendation                                                  *)
(***************************************************************************)
NoRecommendation == [recommendation |-> Absent, reasoning |-> Absent]

\* what the completion service can answer to GENERATE_RECOMMENDATION_PROMPT
RecommendationResponses ==
    {Raise(NoRecommendation), Garbage(NoRecommendation)} \cup
    {Dict([recommendation |-> r, reasoning |-> g]) :
        r \in {Absent, PyStr("APPROVE"), PyStr("DENY")},
        g \in {Absent, PyStr("covered by the policy")}}

generate_recommendation(resp) ==
    IF ToolFails(resp)
    THEN [recommendation |-> PyStr("ERROR"), reasoning |-> PyStr(ErrMsg)]
    ELSE resp.d

\* the node also clearing the policy text it has consumed
recommendation_node_clears_text ==
    /\ pc = "recommendation"
    /\ OwnRunOnly
    /\ \E resp \in RecommendationResponses :
         LET result == generate_recommendation(resp) IN
         /\ state' = [state EXCEPT
                !["recommendation"] = Get(result, "recommendation"),
                !["recommendation_reasoning"] = Get(result, "reasoning"),
                !["retrieved_policy_text"] = PyStr(""),
                !["current_step"] = PyStr("recommendation_generated")]
         /\ LlmCall(resp)
    /\ pc' = "price_check"
    /\ trace' = Append(trace, "recommendation")
    /\ NoRetrieval
    /\ UNCHANGED <<router_calls, fd_writes, input>>

recommendation_node ==
    /\ pc = "recommendation"
    /\ OwnRunOnly
    /\ \E resp \in RecommendationResponses :
         LET result == generate_recommendation(resp) IN
         /\ state' = [state EXCEPT
                !["recommendation"] = Get(result, "recommendation"),
                !["recommendation_reasoning"] = Get(result, "reasoning"),
                !["current_step"] = PyStr("recommendation_generated")]
         /\ LlmCall(resp)
    /\ pc' = "price_check"
    /\ trace' = Append(trace, "recommendation")
    /\ NoRetrieval
    /\ UNCHANGED <<router_calls, fd_writes, input>>

(***************************************************************************)
(* Node 6: price check                                                     *)
(***************************************************************************)
\* x > y is defined between numbers (a bool is a number); with a str or a
\* list on the left it raises TypeError
Comparable(v) == v.t \in {"num", "bool"}

NumberOf(v) == IF v.t = "bool" THEN (IF v.b THEN 1 ELSE 0) ELSE v.n

\* the comparison with >= in place of >
GreaterOrEqual(v, limit) == NumberOf(v) >= limit

GreaterThan(v, limit) == NumberOf(v) > limit

price_check_node ==
    /\ pc = "price_check"
    /\ OwnRunOnly
    /\ LET claim_amount == IF Truthy(state["claim_amount"])
                           THEN state["claim_amount"] ELSE PyNum(0)
       IN IF Comparable(claim_amount)
          THEN /\ state' = [state EXCEPT
                      !["price_check_result"] =
                          IF GreaterThan(claim_amount, HighAmount)
                          THEN PyStr("HIGH_AMOUNT_FLAGGED")
                          ELSE PyStr("WITHIN_NORMAL_RANGE"),
                      !["current_step"] = PyStr("price_checked")]
               /\ pc' = "finalize_decision"
               /\ trace' = Append(trace, "price_check")
               /\ UNCHANGED <<router_calls, fd_writes, input>>
          ELSE NodeRaises
    /\ NoLlmCall
    /\ NoRetrieval

(***************************************************************************)
(* Node 7: finalize                                                        *)
(***************************************************************************)
NoDecision == [final_decision |-> Absent, final_reasoning |-> Absent]

\* what the completion service can answer to FINALIZE_DECISION_PROMPT
FinalizeResponses ==
    {Raise(NoDecision), Garbage(NoDecision)} \cup
    {Dict([final_decision |-> f, final_reasoning |-> g]) :
        f \in {Absent, PyStr("APPROVED"), PyStr("DENIED"),
               PyStr("REQUIRES_REVIEW"), PyStr("INVALID")},
        g \in {Absent, PyStr("meets the policy terms")}}

finalize_decision(resp) ==
    IF ToolFails(resp)
    THEN [final_decision |-> PyStr("ERROR"), final_reasoning |-> PyStr(ErrMsg)]
    ELSE resp.d

\* the node leaving current_step as the price check wrote it
finalize_decision_node_keeps_step ==
    /\ pc = "finalize_decision"
    /\ OwnRunOnly
    /\ IF /\ IsStrArg(state["recommendation"])
          /\ IsStrArg(state["recommendation_reasoning"])
          /\ IsStrArg(state["price_check_result"])
       THEN /\ \E resp \in FinalizeResponses :
                 LET result == finalize_decision(resp) IN
                 /\ state' = [state EXCEPT
                        !["final_decision"] = Get(result, "final_decision"),
                        !["final_reasoning"] = Get(result, "final_reasoning")]
                 /\ LlmCall(resp)
            /\ fd_writes' = fd_writes + 1
            /\ pc' = "END"
            /\ trace' = Append(trace, "finalize_decision")
            /\ UNCHANGED <<router_calls, input>>
       ELSE NodeRaises /\ NoLlmCall
    /\ NoRetrieval

finalize_decision_node ==
    /\ pc = "finalize_decision"
    /\ OwnRunOnly
    /\ IF /\ IsStrArg(state["recommendation"])
          /\ IsStrArg(state["recommendation_reasoning"])
          /\ IsStrArg(state["price_check_result"])
       THEN /\ \E resp \in FinalizeResponses :
                 LET result == finalize_decision(resp) IN
                 /\ state' = [state EXCEPT
                        !["final_decision"] = Get(result, "final_decision"),
                        !["final_reasoning"] = Get(result, "final_reasoning"),
                        !["current_step"] = PyStr("completed")]
                 /\ LlmCall(resp)
            /\ fd_writes' = fd_writes + 1
            /\ pc' = "END"
            /\ trace' = Append(trace, "finalize_decision")
            /\ UNCHANGED <<router_calls, input>>
       ELSE NodeRaises /\ NoLlmCall
    /\ NoRetrieval

(***************************************************************************)
(* One run of the workflow, as process_claim starts it                     *)
(***************************************************************************)
Next ==
    \/ parse_claim_node
    \/ validate_claim_node
    \/ route
    \/ invalid_claim_node
    \/ generate_queries_node
    \/ retrieve_policy_node
    \/ recommendation_node
    \/ price_check_node
    \/ finalize_decision_node

Spec == Init /\ [][Next]_vars

(***************************************************************************)
(* Two runs at once.  Each Streamlit session runs process_claim in its own *)
(* thread; the threads share the compiled graph claims_graph, the client   *)
(* llm and the store, and each call of claims_graph.invoke has its own     *)
(* record.  The run of the thread that is not running is kept in other.    *)
(***************************************************************************)
\* the claim of the second session
OtherClaimJson == "{other claim}"

other_initial_state == [initial_state EXCEPT !["claim_json"] = PyStr(OtherClaimJson)]

\* the run of the running thread
ThisRun ==
    [input |-> input, state |-> state, pc |-> pc, trace |-> trace,
     router_calls |-> router_calls, llm_log |-> llm_log, retr_calls |-> retr_calls,
     retr_topk |-> retr_topk, retr_log |-> retr_log, fd_writes |-> fd_writes]

\* the interpreter switching to a thread that shares the record of the
\* running one
switch_shared_record ==
    /\ other.pc # "NONE"
    /\ other' = [ThisRun EXCEPT !.state = other.state]
    /\ state' = state
    /\ input' = other.input
    /\ pc' = other.pc
    /\ trace' = other.trace
    /\ router_calls' = other.router_calls
    /\ llm_log' = other.llm_log
    /\ retr_calls' = other.retr_calls
    /\ retr_topk' = other.retr_topk
    /\ retr_log' = other.retr_log
    /\ fd_writes' = other.fd_writes
    /\ UNCHANGED <<cancelled, text, extracted>>

\* the interpreter switches to the other thread, between two nodes
switch ==
    /\ other.pc # "NONE"
    /\ other' = ThisRun
    /\ state' = other.state
    /\ input' = other.input
    /\ pc' = other.pc
    /\ trace' = other.trace
    /\ router_calls' = other.router_calls
    /\ llm_log' = other.llm_log
    /\ retr_calls' = other.retr_calls
    /\ retr_topk' = other.retr_topk
    /\ retr_log' = other.retr_log
    /\ fd_writes' = other.fd_writes
    /\ UNCHANGED <<cancelled, text, extracted>>

\* the replies the completion service gives in the two sessions: to each
\* prompt two well-formed ones, and an outage at the first
SessionReplies ==
    {Raise(NoParsedData)} \cup
    {Dict([claim_id |-> PyStr("CLM-1"), policy_holder |-> PyStr("Jane"),
           vendor_name |-> PyStr("AutoFix"),
           invoice_items |-> PyList(<<"Oil Change">>), claim_amount |-> a]) :
        a \in {PyNum(50), PyNum(HighAmount + 1)}} \cup
    {Dict([is_valid |-> PyBool(TRUE), reason |-> Absent]),
     Dict([is_valid |-> PyBool(FALSE),
           reason |-> PyStr("Claim amount must be greater than 0")])} \cup
    {NonDict([queries |-> Absent, value |-> Queries(1)])} \cup
    {Dict([recommendation |-> r, reasoning |-> PyStr("covered by the policy")]) :
        r \in {PyStr("APPROVE"), PyStr("DENY")}} \cup
    {Dict([final_decision |-> f, final_reasoning |-> PyStr("meets the policy terms")]) :
        f \in {PyStr("APPROVED"), PyStr("DENIED")}}

\* a step of the running thread, its completion call answered from
\* SessionReplies
session_step ==
    /\ Next
    /\ llm_log' # llm_log => llm_log'[Len(llm_log')] \in SessionReplies

InitConcurrent ==
    /\ Invoke(initial_state)
    /\ other = NewRun(other_initial_state)

NextConcurrent ==
    \/ session_step
    \/ switch

SpecConcurrent == InitConcurrent /\ [][NextConcurrent]_vars

(***************************************************************************)
(* A collaborator that does not answer.  llm.invoke and                    *)
(* policy_store.retrieve are blocking calls made without a timeout and     *)
(* the graph sets none for its nodes: the node that made the call stays    *)
(* in it.                                                                  *)
(***************************************************************************)
\* the node at pc calls a collaborator when it runs
CallsCollaborator ==
    \/ pc \in {"parse_claim", "validate_claim", "generate_queries", "recommendation"}
    \/ /\ pc = "retrieve_policy"
       /\ IsListOfStrArg(state["policy_queries"])
       /\ state["policy_queries"].l # <<>>
    \/ /\ pc = "finalize_decision"
       /\ IsStrArg(state["recommendation"])
       /\ IsStrArg(state["recommendation_reasoning"])
       /\ IsStrArg(state["price_check_result"])

\* the call is made and no answer comes: nothing is written and no node
\* runs after it
collaborator_hangs ==
    /\ CallsCollaborator
    /\ pc' = "BLOCKED"
    /\ OwnRunOnly
    /\ NoLlmCall
    /\ NoRetrieval
    /\ UNCHANGED <<state, trace, router_calls, fd_writes, input>>

NextHang ==
    \/ Next
    \/ collaborator_hangs

\* the graph runs the next node as soon as the one before has returned
SpecHang == Init /\ [][NextHang]_vars /\ WF_vars(NextHang)

(***************************************************************************)
(* A caller that gives the run up.  process_claim calls                     *)
(* claims_graph.invoke and waits for its return; it passes no cancellation *)
(* token and no node reads one, so giving up changes nothing but the       *)
(* caller's own mind.                                                      *)
(***************************************************************************)
\* between two stages of a run that has not ended, the caller cancels
cancel ==
    /\ pc \notin {"END", "RAISED"}
    /\ ~cancelled
    /\ cancelled' = TRUE
    /\ NoLlmCall
    /\ NoRetrieval
    /\ UNCHANGED <<state, pc, trace, router_calls, fd_writes, input,
                   other, text, extracted>>

NextCancel ==
    \/ Next
    \/ cancel

SpecCancel == Init /\ [][NextCancel]_vars

(***************************************************************************)
(* extract_json.  The response content is a sequence of tokens: the four   *)
(* brackets, the comma, a number "1", the keys "a:" and "b:" (a quoted key *)
(* with its colon), whitespace " ", a word of prose "w", "fence" for the  *)
(* three backticks and the tag "json".  A decoded value is                 *)
(* <<type, content>>: a number, a list of values, or a dict from keys to   *)
(* values.                                                                 *)
(***************************************************************************)
\* nesting depth of the JSON values the responses hold
MaxDepth == 1

WS == " "

Keys == {"a:", "b:"}

Opens == {"{", "["}

Close(open) == IF open = "{" THEN "}" ELSE "]"

Min(S) == CHOOSE x \in S : \A y \in S : x <= y

\* json.loads skips whitespace between the tokens of a document
StripWs(toks) == SelectSeq(toks, LAMBDA t : t # WS)

\* json.JSONDecodeError
DecodeError == [ok |-> FALSE, value |-> <<>>, rest |-> <<>>]

Decoded(value, rest) == [ok |-> TRUE, value |-> value, rest |-> rest]

\* d[key] = value of a Python dict: a key given twice holds the last value
SetItem(d, key, value) ==
    [k \in (DOMAIN d) \cup {key} |-> IF k = key THEN value ELSE d[k]]

RECURSIVE ParseValue(_), ParseElements(_, _), ParseMembers(_, _)
\* the JSON value at the head of toks, and the tokens after it
ParseValue(toks) ==
    IF toks = <<>> THEN DecodeError
    ELSE CASE Head(toks) = "1" -> Decoded(<<"num", <<>>>>, Tail(toks))
           [] Head(toks) = "[" ->
                IF Len(toks) >= 2 /\ toks[2] = "]"
                THEN Decoded(<<"list", <<>>>>, SubSeq(toks, 3, Len(toks)))
                ELSE ParseElements(Tail(toks), <<>>)
           [] Head(toks) = "{" ->
                IF Len(toks) >= 2 /\ toks[2] = "}"
                THEN Decoded(<<"dict", <<>>>>, SubSeq(toks, 3, Len(toks)))
                ELSE ParseMembers(Tail(toks), <<>>)
           [] OTHER -> DecodeError

\* the elements of an array after "[" or ",", up to the "]"
ParseElements(toks, acc) ==
    LET v == ParseValue(toks) IN
    IF ~v.ok \/ v.rest = <<>> THEN DecodeError
    ELSE IF Head(v.rest) = "]"
         THEN Decoded(<<"list", Append(acc, v.value)>>, Tail(v.rest))
    ELSE IF Head(v.rest) = ","
         THEN ParseElements(Tail(v.rest), Append(acc, v.value))
    ELSE DecodeError

\* the members of an object after "{" or ",", up to the "}"
ParseMembers(toks, acc) ==
    IF toks = <<>> \/ Head(toks) \notin Keys THEN DecodeError
    ELSE LET v == ParseValue(Tail(toks)) IN
         IF ~v.ok \/ v.rest = <<>> THEN DecodeError
         ELSE IF Head(v.rest) = "}"
              THEN Decoded(<<"dict", SetItem(acc, Head(toks), v.value)>>, Tail(v.rest))
         ELSE IF Head(v.rest) = ","
              THEN ParseMembers(Tail(v.rest), SetItem(acc, Head(toks), v.value))
         ELSE DecodeError

\* json.loads(toks): the whole document is one JSON value
json_loads(toks) ==
    LET v == ParseValue(StripWs(toks)) IN
    IF v.ok /\ v.rest = <<>> THEN [ok |-> TRUE, value |-> v.value] ELSE NoResult

\* whitespace from position i on is skipped: the first position after it
SkipWs(toks, i) ==
    Min({k \in i..(Len(toks) + 1) : k = Len(toks) + 1 \/ toks[k] # WS})

\* where the group of the fenced pattern starts when the fence is at i:
\* after the fence, the optional tag and the whitespace
GroupStart(toks, i) ==
    SkipWs(toks, IF i + 1 <= Len(toks) /\ toks[i + 1] = "json" THEN i + 2 ELSE i + 1)

\* where a group opened at j can end so that whitespace and a fence follow
FencedEnds(toks, j) ==
    {e \in (j + 1)..Len(toks) :
        /\ toks[e] = Close(toks[j])
        /\ SkipWs(toks, e + 1) <= Len(toks)
        /\ toks[SkipWs(toks, e + 1)] = "fence"}

\* the fences at which the fenced pattern of line 37 matches
FencedStarts(toks) ==
    {i \in 1..Len(toks) :
        /\ toks[i] = "fence"
        /\ GroupStart(toks, i) <= Len(toks)
        /\ toks[GroupStart(toks, i)] \in Opens
        /\ FencedEnds(toks, GroupStart(toks, i)) # {}}

\* group(1) of re.search with the fenced pattern: the leftmost match, its
\* group as short as the rest of the pattern allows
FencedGroup(toks) ==
    LET j == GroupStart(toks, Min(FencedStarts(toks))) IN
    SubSeq(toks, j, Min(FencedEnds(toks, j)))

\* where the closing bracket of a group opened at j can be
SubstringEnds(toks, j) == {e \in (j + 1)..Len(toks) : toks[e] = Close(toks[j])}

\* the positions at which the pattern of line 42 matches
SubstringStarts(toks) ==
    {j \in 1..Len(toks) : toks[j] \in Opens /\ SubstringEnds(toks, j) # {}}

\* group(1) of re.search with the pattern of line 42: from the leftmost opening
\* bracket to the first closing bracket of its kind
SubstringGroup(toks) ==
    LET j == Min(SubstringStarts(toks)) IN
    SubSeq(toks, j, Min(SubstringEnds(toks, j)))

\* the pipeline is not running while extract_json is looked at alone
ExtractOnly ==
    UNCHANGED <<state, router_calls, llm_log, retr_calls, retr_topk, retr_log,
                fd_writes, input, other, cancelled, text>>

\* return of extract_json with value v
Return(v) == extracted' = v /\ pc' = "returned"

\* json.loads(json_match.group(1)): its JSONDecodeError is raised inside the
\* except block and leaves extract_json
ReturnOrRaise(group) ==
    IF json_loads(group).ok THEN Return(json_loads(group))
    ELSE pc' = "raised" /\ UNCHANGED extracted

\* try: return json.loads(text)
try_json_loads ==
    /\ pc = "json_loads"
    /\ trace' = Append(trace, "json_loads")
    /\ IF json_loads(text).ok THEN Return(json_loads(text))
       ELSE pc' = "search_fenced" /\ UNCHANGED extracted
    /\ ExtractOnly

\* except json.JSONDecodeError: the fenced block
search_fenced ==
    /\ pc = "search_fenced"
    /\ trace' = Append(trace, "search_fenced")
    /\ IF FencedStarts(text) # {} THEN ReturnOrRaise(FencedGroup(text))
       ELSE pc' = "search_any" /\ UNCHANGED extracted
    /\ ExtractOnly

\* the first object or array in the text, else ValueError
search_any ==
    /\ pc = "search_any"
    /\ trace' = Append(trace, "search_any")
    /\ IF SubstringStarts(text) # {} THEN ReturnOrRaise(SubstringGroup(text))
       ELSE pc' = "raised" /\ UNCHANGED extracted
    /\ ExtractOnly

\* the except Exception clause of the tool that called extract_json: the
\* tool returns its failure value
tool_except ==
    /\ pc = "raised"
    /\ pc' = "sentinel"
    /\ UNCHANGED <<trace, extracted>>
    /\ ExtractOnly

\* serialised JSON values, by nesting depth
Arrays(V) ==
    {<<"[", "]">>}
      \cup {<<"[">> \o v \o <<"]">> : v \in V}
      \cup {<<"[">> \o v[1] \o <<",">> \o v[2] \o <<"]">> : v \in V \X V}

Objects(V) ==
    {<<"{", "}">>}
      \cup {<<"{", "a:">> \o v \o <<"}">> : v \in V}
      \cup {<<"{", "a:">> \o v[1] \o <<",", "b:">> \o v[2] \o <<"}">> : v \in V \X V}

RECURSIVE JsonValues(_)
JsonValues(depth) ==
    IF depth = 0 THEN {<<"1">>}
    ELSE LET V == JsonValues(depth - 1) IN V \cup Arrays(V) \cup Objects(V)

JsonObjects == Objects(JsonValues(MaxDepth))

\* the three ways a response carries an object
Bare(obj) == obj

Fenced(obj) == <<"fence", "json", WS>> \o obj \o <<WS, "fence">>

InProse(obj) == <<"w", WS>> \o obj \o <<WS, "w">>

\* other responses: no JSON at all, an array before a fenced block that is
\* not JSON, a fence without tag, a fenced block inside prose, braces that
\* hold no JSON, a bare number
OtherTexts ==
    {<<"w", WS, "w">>,
     <<"[", "1", "]", WS, "fence", "json", WS, "{", "1", "}", WS, "fence">>,
     <<"fence", WS, "{", "a:", "1", "}", WS, "fence">>,
     <<"w", WS, "fence", "json", WS, "{", "a:", "[", "1", "]", "}", WS, "fence", WS, "w">>,
     <<"{", "1", "}">>,
     <<"w", WS, "{", "w", "}", WS, "[", "1", "]">>,
     <<"1">>}

Texts ==
    OtherTexts \cup {Bare(obj) : obj \in JsonObjects}
               \cup {Fenced(obj) : obj \in JsonObjects}
               \cup {InProse(obj) : obj \in JsonObjects}

\* extract_json(text) for one response of the completion service
InitExtract ==
    /\ text \in Texts
    /\ extracted = NoResult
    /\ pc = "json_loads"
    /\ trace = <<>>
    /\ state = initial_state
    /\ input = initial_state
    /\ router_calls = 0
    /\ llm_log = <<>>
    /\ retr_calls = 0
    /\ retr_topk = 0
    /\ retr_log = <<>>
    /\ fd_writes = 0
    /\ other = NoRun
    /\ cancelled = FALSE

NextExtract ==
    \/ try_json_loads
    \/ search_fenced
    \/ search_any
    \/ tool_except

SpecExtract == InitExtract /\ [][NextExtract]_vars


(***************************************************************************)
(* claims_graph.invoke called again with the record a finished run         *)
(* returned.  RejectedRecord is the record of a run in which every call of *)
(* the completion service raised, FinalizedRecord the record of an         *)
(* approved claim.                                                         *)
(***************************************************************************)
RejectedRecord ==
    [k \in ClaimState |->
        CASE k = "claim_json"        -> PyStr(ClaimJson)
          [] k = "is_valid"          -> PyBool(FALSE)
          [] k = "validation_reason" -> PyStr("Validation error: " \o ErrMsg)
          [] k = "final_decision"    -> PyStr("INVALID")
          [] k = "final_reasoning"   -> PyStr("Validation error: " \o ErrMsg)
          [] k = "current_step"      -> PyStr("completed")
          [] k \in ParsedKeys        -> PyNone
          [] OTHER                   -> Absent]

FinalizedRecord ==
    [k \in ClaimState |->
        CASE k = "claim_json"               -> PyStr(ClaimJson)
          [] k = "claim_id"                 -> PyStr("CLM-1")
          [] k = "policy_holder"            -> PyStr("Jane")
          [] k = "vendor_name"              -> PyStr("AutoFix")
          [] k = "invoice_items"            -> PyList(<<"Oil Change">>)
          [] k = "claim_amount"             -> PyNum(50)
          [] k = "is_valid"                 -> PyBool(TRUE)
          [] k = "validation_reason"        -> PyStr("")
          [] k = "policy_queries"           -> PyList(<<>>)
          [] k = "retrieved_policy_text"    -> PyStr("")
          [] k = "recommendation"           -> PyStr("APPROVE")
          [] k = "recommendation_reasoning" -> PyStr("covered by the policy")
          [] k = "price_check_result"       -> PyStr("WITHIN_NORMAL_RANGE")
          [] k = "final_decision"           -> PyStr("APPROVED")
          [] k = "final_reasoning"          -> PyStr("meets the policy terms")
          [] OTHER                          -> PyStr("completed")]

InitReinvoke ==
    /\ \E record \in {RejectedRecord, FinalizedRecord} : Invoke(record)
    /\ other = NoRun

SpecReinvoke == InitReinvoke /\ [][Next]_vars

(***************************************************************************)
(* Vocabulary of the properties                                            *)
(***************************************************************************)
Ran(node) == \E i \in DOMAIN trace : trace[i] = node

TimesRan(node) == Cardinality({i \in DOMAIN trace : trace[i] = node})

RunEnded == pc \in {"END", "RAISED"}

AcceptPath ==
    <<"parse_claim", "validate_claim", "generate_queries", "retrieve_policy",
      "recommendation", "price_check", "finalize_decision">>

RejectPath == <<"parse_claim", "validate_claim", "invalid_claim">>

IsPrefix(p, q) == Len(p) <= Len(q) /\ SubSeq(q, 1, Len(p)) = p

\* a field that holds a value: the key is there and is not None
IsSet(v) == v.t \notin {"absent", "none"}

NonEmptyStr(v) == v.t = "str" /\ v.s # ""

\* the validity predicate of the claim: the three names and a positive amount
RequiredFieldsOk(st) ==
    /\ NonEmptyStr(st["claim_id"])
    /\ NonEmptyStr(st["policy_holder"])
    /\ NonEmptyStr(st["vendor_name"])
    /\ st["claim_amount"].t = "num"
    /\ st["claim_amount"].n > 0

\* a record in a terminal state: Finalized or Rejected
IsTerminal(record) == record["current_step"] = PyStr("completed")

\* every call of the completion service made in the run raised
AllLlmCallsFailed ==
    /\ llm_log # <<>>
    /\ \A i \in DOMAIN llm_log : llm_log[i].kind = "raise"

\* the validate stage has returned; Verdict is what the completion service
\* answered to its call, the second of the run
Validated == Ran("validate_claim")

Verdict == llm_log[2]

(***************************************************************************)
(* Properties                                                              *)
(***************************************************************************)

\* C1: in every run exactly one of finalize_decision_node and
\* invalid_claim_node executes, and final_decision is written exactly once:
\* never twice, and once by the time the run has ended.
C1_ExactlyOneTerminalStage ==
    /\ fd_writes <= 1
    /\ TimesRan("finalize_decision") + TimesRan("invalid_claim") <= 1
    /\ RunEnded =>
         /\ TimesRan("finalize_decision") + TimesRan("invalid_claim") = 1
         /\ fd_writes = 1

\* C2: after the validate stage the run goes to the router, which sends
\* is_valid = True to query generation and is_valid = False or missing to the
\* reject stage; the reject stage sets final_decision = INVALID and copies
\* validation_reason into final_reasoning.
C2_BranchOnIsValid ==
    [][/\ pc = "validate_claim" => pc' = "route"
       /\ (pc = "route" /\ state["is_valid"] = PyBool(TRUE))
             => pc' = "generate_queries"
       /\ (pc = "route" /\ state["is_valid"] \in {PyBool(FALSE), PyNone, Absent})
             => pc' = "invalid_claim"
       /\ pc = "invalid_claim" =>
             /\ pc' = "END"
             /\ state'["final_decision"] = PyStr("INVALID")
             /\ state'["final_reasoning"] = state["validation_reason"]]_vars

\* a rejected run: is_valid = False went to the reject stage, which copied
\* the reason
C2_Witness ==
    /\ pc = "END"
    /\ trace = RejectPath
    /\ state["is_valid"] = PyBool(FALSE)
    /\ state["final_decision"] = PyStr("INVALID")
    /\ NonEmptyStr(state["validation_reason"])
    /\ state["final_reasoning"] = state["validation_reason"]

\* C3: the stages run in the order of the accept path or of the reject path,
\* and a run that has ended has run the whole of one of the two paths: no
\* stage skipped, repeated or out of order.
C3_StagesInOrder ==
    /\ IsPrefix(trace, AcceptPath) \/ IsPrefix(trace, RejectPath)
    /\ RunEnded => trace \in {AcceptPath, RejectPath}

\* C4: whatever the collaborators answer, no exception leaves the controller
\* and a run that has ended has final_decision and final_reasoning set.
C4_RunEndsWithDecision ==
    /\ pc # "RAISED"
    /\ pc = "END" => IsSet(state["final_decision"]) /\ IsSet(state["final_reasoning"])

\* C5 as stated: when every call of the completion service fails, the run
\* ends without an exception and with recommendation = ERROR or
\* final_decision = ERROR.
C5_OutageEndsInError ==
    (AllLlmCallsFailed /\ RunEnded) =>
        /\ pc = "END"
        /\ \/ state["recommendation"] = PyStr("ERROR")
           \/ state["final_decision"] = PyStr("ERROR")

\* C5 as amended: when every call of the completion service fails, no
\* exception leaves the controller, no stage of the accept branch runs, and
\* the run ends at Rejected with final_decision = INVALID and recommendation
\* never written.
C5_OutageEndsInvalid ==
    AllLlmCallsFailed =>
        /\ pc \in {"validate_claim", "route", "invalid_claim", "END"}
        /\ state["recommendation"] = Absent
        /\ Validated => state["is_valid"] = PyBool(FALSE)
        /\ pc = "END" =>
             /\ trace = RejectPath
             /\ state["final_decision"] = PyStr("INVALID")

\* a run that has ended with both of its calls of the completion service failed
C5_Witness ==
    /\ pc = "END"
    /\ AllLlmCallsFailed
    /\ Len(llm_log) = 2
    /\ state["final_decision"] = PyStr("INVALID")

\* C6: when the controller is invoked on a record that is already terminal,
\* no stage executes and no field of the record changes.
C6_TerminalRecordUntouched ==
    IsTerminal(input) => (trace = <<>> /\ state = input)

\* C7 as stated: once the validate stage has returned for a claim whose parsed
\* claim_id, policy_holder and vendor_name are non-empty and whose
\* claim_amount is > 0, is_valid is True and the run is on the accept branch.
C7_ValidClaimAccepted ==
    (Validated /\ RequiredFieldsOk(state)) =>
        /\ state["is_valid"] = PyBool(TRUE)
        /\ pc # "invalid_claim"
        /\ ~Ran("invalid_claim")

\* C7 as amended: for such a claim, when the completion service answers the
\* validation prompt with is_valid = true, the validate stage sets
\* is_valid = True and the run takes the accept branch: the router sends it
\* to query generation and the reject stage never runs.
C7_ValidClaimAcceptedOnVerdict ==
    (/\ Validated
     /\ RequiredFieldsOk(state)
     /\ ~ToolFails(Verdict)
     /\ Verdict.d["is_valid"] = PyBool(TRUE)) =>
        /\ state["is_valid"] = PyBool(TRUE)
        /\ pc = "route" => should_continue_after_validation(state) = "continue"
        /\ pc # "invalid_claim"
        /\ ~Ran("invalid_claim")

\* a valid claim the completion service declared valid, with query generation
\* done
C7_Witness ==
    /\ RequiredFieldsOk(state)
    /\ Validated
    /\ ~ToolFails(Verdict)
    /\ Verdict.d["is_valid"] = PyBool(TRUE)
    /\ Ran("generate_queries")

\* C8 as stated: a claim with a required field missing (or claim_amount not
\* > 0) ends at Rejected with is_valid = False, final_decision = INVALID and
\* final_reasoning equal to the non-empty validation_reason.
C8_IncompleteClaimRejected ==
    (Validated /\ ~RequiredFieldsOk(state)) =>
        /\ state["is_valid"] = PyBool(FALSE)
        /\ NonEmptyStr(state["validation_reason"])
        /\ pc \in {"route", "invalid_claim", "END"}
        /\ pc = "END" =>
             /\ trace = RejectPath
             /\ state["final_decision"] = PyStr("INVALID")
             /\ state["final_reasoning"] = state["validation_reason"]

\* the completion service rejected the claim with a reason, or its call or
\* the decoding of its answer failed
RejectingVerdict(resp) ==
    \/ ToolFails(resp)
    \/ /\ resp.d["is_valid"] = PyBool(FALSE)
       /\ NonEmptyStr(resp.d["reason"])

\* C8 as amended: such a claim ends at Rejected with is_valid = False,
\* final_decision = INVALID and final_reasoning equal to the non-empty
\* validation_reason when the completion service answers the validation
\* prompt with is_valid = false and a non-empty reason, or when its call
\* fails or its answer cannot be decoded.
C8_IncompleteClaimRejectedOnVerdict ==
    (Validated /\ ~RequiredFieldsOk(state) /\ RejectingVerdict(Verdict)) =>
        /\ state["is_valid"] = PyBool(FALSE)
        /\ NonEmptyStr(state["validation_reason"])
        /\ pc \in {"route", "invalid_claim", "END"}
        /\ pc = "END" =>
             /\ trace = RejectPath
             /\ state["final_decision"] = PyStr("INVALID")
             /\ state["final_reasoning"] = state["validation_reason"]

\* a claim with total amount 0 that the completion service rejected, at Rejected
C8_Witness ==
    /\ pc = "END"
    /\ state["claim_amount"] = PyNum(0)
    /\ ~ToolFails(Verdict)
    /\ RejectingVerdict(Verdict)
    /\ state["final_decision"] = PyStr("INVALID")

\* the amount the price check compares: claim_amount, 0 when it is None
CheckedAmount(st) == IF st["claim_amount"].t = "num" THEN st["claim_amount"].n ELSE 0

\* C9: the price-check stage calls no collaborator, and when it returns
\* price_check_result is HIGH_AMOUNT_FLAGGED if claim_amount > 10000 and
\* WITHIN_NORMAL_RANGE otherwise, 10000 included.
C9_PriceCheckDeterministic ==
    [][pc = "price_check" =>
         /\ llm_log' = llm_log
         /\ retr_calls' = retr_calls
         /\ pc' = "finalize_decision" =>
              state'["price_check_result"] =
                  IF CheckedAmount(state) > 10000
                  THEN PyStr("HIGH_AMOUNT_FLAGGED")
                  ELSE PyStr("WITHIN_NORMAL_RANGE")]_vars

\* the boundary: the price check has returned for claim_amount = 10000
C9_Witness ==
    /\ Ran("price_check")
    /\ state["claim_amount"] = PyNum(10000)
    /\ state["price_check_result"] = PyStr("WITHIN_NORMAL_RANGE")

\* C10: is_valid is not null once the validate stage has returned, and
\* final_decision is not null once the finalize or the reject stage has
\* returned.
C10_NeverNull ==
    /\ Validated => IsSet(state["is_valid"])
    /\ (Ran("finalize_decision") \/ Ran("invalid_claim")) => IsSet(state["final_decision"])

\* the decisions of the data model
FinalDecisions == {"APPROVED", "DENIED", "REQUIRES_REVIEW", "INVALID", "ERROR"}

\* the answer the completion service gave to the last call made
LastAnswer == llm_log[Len(llm_log)]

\* the call of the completion service failed, or extract_json got nothing
\* from its reply
FailedReply(resp) == resp.kind \in {"raise", "garbage"}

\* C11: at the end of a run final_decision is one of APPROVED, DENIED,
\* REQUIRES_REVIEW, INVALID, ERROR; when the finalize stage has returned it
\* is one of APPROVED, DENIED, REQUIRES_REVIEW, or ERROR when the call of the
\* completion service failed.
C11_FinalDecisionInEnum ==
    /\ pc = "END" =>
         /\ state["final_decision"].t = "str"
         /\ state["final_decision"].s \in FinalDecisions
    /\ Ran("finalize_decision") =>
         /\ state["final_decision"].t = "str"
         /\ state["final_decision"].s \in {"APPROVED", "DENIED", "REQUIRES_REVIEW", "ERROR"}
         /\ FailedReply(LastAnswer) => state["final_decision"] = PyStr("ERROR")

\* C12: once the recommendation stage has returned, recommendation is one of
\* APPROVE, DENY, ERROR, UNKNOWN.
C12_RecommendationInEnum ==
    Ran("recommendation") =>
        /\ state["recommendation"].t = "str"
        /\ state["recommendation"].s \in {"APPROVE", "DENY", "ERROR", "UNKNOWN"}

\* C13: a stage whose collaborator call fails (the call raises or the reply
\* cannot be decoded) writes its sentinel and hands over to the next stage:
\* policy_queries = [], retrieved_policy_text = "", recommendation = ERROR,
\* final_decision = ERROR; the step never ends in an exception.
C13_FailureRecoveredInStage ==
    [][/\ (pc = "generate_queries" /\ llm_log' # llm_log /\ FailedReply(LastAnswer')) =>
             /\ state'["policy_queries"] = PyList(<<>>)
             /\ pc' = "retrieve_policy"
       /\ (/\ pc = "retrieve_policy"
           /\ retr_log' # retr_log
           /\ retr_log'[Len(retr_log')].outcome = "raise") =>
             /\ state'["retrieved_policy_text"] = PyStr("")
             /\ pc' = "recommendation"
       /\ (pc = "recommendation" /\ llm_log' # llm_log /\ FailedReply(LastAnswer')) =>
             /\ state'["recommendation"] = PyStr("ERROR")
             /\ pc' = "price_check"
       /\ (pc = "finalize_decision" /\ llm_log' # llm_log /\ FailedReply(LastAnswer')) =>
             /\ state'["final_decision"] = PyStr("ERROR")
             /\ pc' = "END"]_vars

\* a run in which the completion service failed in query generation,
\* recommendation and finalize, and that went through to the end
C13_Witness ==
    /\ pc = "END"
    /\ trace = AcceptPath
    /\ \A i \in 3..5 : FailedReply(llm_log[i])
    /\ state["policy_queries"] = PyList(<<>>)
    /\ state["retrieved_policy_text"] = PyStr("")
    /\ state["recommendation"] = PyStr("ERROR")
    /\ state["final_decision"] = PyStr("ERROR")

\* extraction failed in the parse stage: the call raised or nothing that is
\* a JSON object could be decoded from the reply
ParseFailed == Ran("parse_claim") /\ ToolFails(llm_log[1])

\* a verdict that does not let the claim through: the call or the decoding
\* failed, or is_valid is false, null or missing
FalsyVerdict(resp) == ToolFails(resp) \/ ~Truthy(resp.d["is_valid"])

\* C14 as stated: when extraction fails in the parse stage, claim_id,
\* policy_holder, vendor_name, invoice_items and claim_amount stay unset, the
\* record goes on to the validate stage, validation fails and the run ends
\* at Rejected with final_decision = INVALID.
C14_ParseFailureRejected ==
    ParseFailed =>
        /\ \A k \in ParsedKeys : ~IsSet(state[k])
        /\ pc \in {"validate_claim", "route", "invalid_claim", "END"}
        /\ Validated => ~Truthy(state["is_valid"])
        /\ pc = "END" =>
             /\ trace = RejectPath
             /\ state["final_decision"] = PyStr("INVALID")

\* C14 as amended: when extraction fails in the parse stage the five fields
\* stay unset and the record goes on to the validate stage; validation fails
\* and the run ends at Rejected with final_decision = INVALID when the
\* completion service answers the validation prompt with an is_valid that is
\* false, null or missing, or when its call or the decoding of its answer
\* fails.
C14_ParseFailureRejectedOnVerdict ==
    ParseFailed =>
        /\ \A k \in ParsedKeys : ~IsSet(state[k])
        /\ trace = <<"parse_claim">> => pc = "validate_claim"
        /\ (Validated /\ FalsyVerdict(Verdict)) =>
             /\ ~Truthy(state["is_valid"])
             /\ pc \in {"route", "invalid_claim", "END"}
             /\ pc = "END" =>
                  /\ trace = RejectPath
                  /\ state["final_decision"] = PyStr("INVALID")

\* extraction failed, the completion service then answered is_valid = false,
\* and the run ended at Rejected
C14_Witness ==
    /\ ParseFailed
    /\ pc = "END"
    /\ ~ToolFails(Verdict)
    /\ Verdict.d["is_valid"] = PyBool(FALSE)
    /\ state["claim_id"] = PyNone
    /\ state["final_decision"] = PyStr("INVALID")

\* C15: when query generation yields no query, the retrieval stage makes no
\* call and sets retrieved_policy_text = "", no exception is raised, and the
\* run goes through recommendation and price check and ends at Finalized.
C15_NoQueriesStillFinalized ==
    (Ran("generate_queries") /\ state["policy_queries"] = PyList(<<>>)) =>
        /\ pc # "RAISED"
        /\ Ran("retrieve_policy") =>
             /\ state["retrieved_policy_text"] = PyStr("")
             /\ retr_log = <<>>
        /\ pc = "END" => trace = AcceptPath

\* C16: once the query-generation stage has returned, policy_queries is a
\* list of at most 3 entries.
C16_AtMostThreeQueries ==
    Ran("generate_queries") =>
        /\ state["policy_queries"].t = "list"
        /\ Len(state["policy_queries"].l) <= 3

\* no call of policy_store.retrieve made in the run has raised
NoRetrieveRaised == \A i \in DOMAIN retr_log : retr_log[i].outcome # "raise"

RECURSIVE TextOfCalls(_, _)
\* the text the calls of log give, taken one after the other: a call with a
\* result adds it to acc, after the delimiter when acc already holds text
TextOfCalls(log, acc) ==
    IF log = <<>> THEN acc
    ELSE LET result == retrieve(Head(log).query, Head(log).outcome)
         IN TextOfCalls(Tail(log),
                IF result = "" THEN acc
                ELSE IF acc = "" THEN result
                ELSE acc \o "\n\n---\n\n" \o result)

\* C17: once the retrieval stage has returned, the store has been called
\* with the queries of policy_queries in their order, each at most once and
\* with top_k = 3; when no call raised it has been called once for every
\* query, and retrieved_policy_text is the non-empty results in query order
\* joined by the delimiter, a query without result adding nothing.
C17_RetrievalJoinsResults ==
    Ran("retrieve_policy") =>
        LET queries == state["policy_queries"].l IN
        /\ Len(retr_log) <= Len(queries)
        /\ \A i \in DOMAIN retr_log :
             /\ retr_log[i].query = queries[i]
             /\ retr_log[i].top_k = 3
        /\ NoRetrieveRaised =>
             /\ Len(retr_log) = Len(queries)
             /\ retr_calls = Len(queries)
             /\ state["retrieved_policy_text"] = PyStr(TextOfCalls(retr_log, ""))

\* three queries, the second without result: the text is the first and the
\* third result with one delimiter between them
C17_Witness ==
    /\ Ran("retrieve_policy")
    /\ Len(state["policy_queries"].l) = 3
    /\ Len(retr_log) = 3
    /\ retr_log[1].outcome = "hit"
    /\ retr_log[2].outcome = "empty"
    /\ retr_log[3].outcome = "hit"
    /\ state["retrieved_policy_text"] =
         PyStr("policy text for policy query 1\n\n---\n\npolicy text for policy query 3")

\* C18: once the validate stage has returned, validation_reason is the empty
\* string if and only if is_valid = True.
C18_ReasonEmptyIffValid ==
    Validated =>
        (state["validation_reason"] = PyStr("") <=> state["is_valid"] = PyBool(TRUE))

\* the fields a stage writes besides current_step; the router writes none
OutputFields(node) ==
    CASE node = "parse_claim" ->
           {"claim_id", "policy_holder", "vendor_name", "invoice_items", "claim_amount"}
      [] node = "validate_claim" -> {"is_valid", "validation_reason"}
      [] node = "generate_queries" -> {"policy_queries"}
      [] node = "retrieve_policy" -> {"retrieved_policy_text"}
      [] node = "recommendation" -> {"recommendation", "recommendation_reasoning"}
      [] node = "price_check" -> {"price_check_result"}
      [] node = "finalize_decision" -> {"final_decision", "final_reasoning"}
      [] node = "invalid_claim" -> {"final_decision", "final_reasoning"}
      [] OTHER -> {}

\* the fields the stages that have returned so far have written
FieldsOfEarlierStages == UNION {OutputFields(trace[i]) : i \in DOMAIN trace}

\* C19: a step of a stage changes no field but the stage's own outputs and
\* current_step; claim_json stays what the run was started with, is_valid is
\* not changed once the validate stage has returned, and no field written by
\* a stage that has returned is changed by a later step.
C19_StagesWriteOwnFields ==
    [][ /\ \A k \in ClaimState :
             state'[k] # state[k] => k \in OutputFields(pc) \cup {"current_step"}
        /\ state'["claim_json"] = input["claim_json"]
        /\ Validated => state'["is_valid"] = state["is_valid"]
        /\ \A k \in FieldsOfEarlierStages : state'[k] = state[k] ]_vars

\* a run through the whole accept branch whose record still holds what each
\* earlier stage wrote: the parsed amount, the verdict, the queries and the
\* retrieved text
C19_Witness ==
    /\ pc = "END"
    /\ trace = AcceptPath
    /\ state["claim_json"] = PyStr(ClaimJson)
    /\ state["claim_amount"] = PyNum(HighAmount + 1)
    /\ state["is_valid"] = PyBool(TRUE)
    /\ Len(state["policy_queries"].l) = 2
    /\ NonEmptyStr(state["retrieved_policy_text"])
    /\ state["recommendation"] = PyStr("APPROVE")
    /\ state["final_decision"] = PyStr("APPROVED")

\* the values of current_step in the order of the stages
StageOrder ==
    <<"initialized", "parsed", "validated", "queries_generated", "policy_retrieved",
      "recommendation_generated", "price_checked", "completed">>

\* the place of a value of current_step in the stage order
Rank(step) == CHOOSE i \in DOMAIN StageOrder : StageOrder[i] = step.s

\* C20: current_step is always one of the stage names; no step takes it back
\* in the stage order and every stage that returns takes it forward; and
\* the branch the router takes is the same whatever current_step holds.
C20_CurrentStepAdvances ==
    /\ [](/\ \E i \in DOMAIN StageOrder : state["current_step"] = PyStr(StageOrder[i])
          /\ \A i \in DOMAIN StageOrder :
               should_continue_after_validation(
                   [state EXCEPT !["current_step"] = PyStr(StageOrder[i])])
                 = should_continue_after_validation(state))
    /\ [][ /\ Rank(state'["current_step"]) >= Rank(state["current_step"])
           /\ trace' # trace =>
                Rank(state'["current_step"]) > Rank(state["current_step"]) ]_vars

\* a run that went through all eight values of current_step
C20_Witness ==
    /\ pc = "END"
    /\ trace = AcceptPath
    /\ state["current_step"] = PyStr("completed")

\* extract_json is through with the text
Extracted == pc \in {"returned", "raised", "sentinel"}

\* C21: for every JSON object, extract_json gets the value the object
\* decodes to, whether the response is the object alone, the object in a
\* json code block or the object inside prose.
C21_SameValueHoweverWrapped ==
    \A obj \in JsonObjects :
        (Extracted /\ text \in {Bare(obj), Fenced(obj), InProse(obj)}) =>
            /\ extracted.ok
            /\ extracted.value = json_loads(obj).value

\* the three strategies of extract_json, in their order
Strategies == <<"json_loads", "search_fenced", "search_any">>

\* C22: the strategies are tried in their order, each after the one before
\* it; a parse error leaves extract_json only after all three were tried;
\* and the calling tool turns the error into its failure value.
C22_StrategiesInOrder ==
    /\ IsPrefix(trace, Strategies)
    /\ pc \in {"raised", "sentinel"} => trace = Strategies
    /\ pc = "sentinel" => ~extracted.ok

\* values to put in the place of a field of the record
OtherValues == {Absent, PyNone, PyBool(TRUE), PyNum(0), PyStr("x"), PyList(<<>>)}

\* C23: the router's result is the same whatever the fields other than
\* is_valid hold; the router has been evaluated once in every run that is
\* past the validate stage and not before; and its evaluation comes right
\* after the validate stage and leaves the record as it was.
C23_RouterPureOnce ==
    /\ [](/\ \A k \in ClaimState \ {"is_valid"} : \A v \in OtherValues :
               should_continue_after_validation([state EXCEPT ![k] = v])
                 = should_continue_after_validation(state)
          /\ router_calls = (IF pc \in {"parse_claim", "validate_claim", "route"}
                             THEN 0 ELSE 1))
    /\ [][router_calls' # router_calls =>
             /\ trace # <<>>
             /\ trace[Len(trace)] = "validate_claim"
             /\ trace' = trace
             /\ state' = state]_vars

\* a finished run of the reject branch: the router was evaluated, once
C23_Witness ==
    /\ pc = "END"
    /\ trace = RejectPath
    /\ router_calls = 1
    /\ ~Truthy(state["is_valid"])

\* the run is on the reject branch: the router has answered "invalid"
OnRejectBranch ==
    /\ Validated
    /\ pc # "route"
    /\ should_continue_after_validation(state) = "invalid"

\* C24: on the reject branch, up to and after the reject stage, the only
\* completion calls of the run are the two of the parse and validate
\* stages, the store has not been called, and policy_queries,
\* retrieved_policy_text, recommendation and price_check_result are unset.
C24_RejectCallsNobody ==
    OnRejectBranch =>
        /\ Len(llm_log) = 2
        /\ retr_calls = 0
        /\ retr_log = <<>>
        /\ \A k \in {"policy_queries", "retrieved_policy_text",
                     "recommendation", "price_check_result"} : state[k] = Absent

\* a run that ended at Rejected with INVALID after two completion calls
C24_Witness ==
    /\ pc = "END"
    /\ Ran("invalid_claim")
    /\ state["final_decision"] = PyStr("INVALID")
    /\ Len(llm_log) = 2
    /\ state["recommendation"] = Absent

\* C28: when the validation call failed or its reply did not decode to a
\* dict, the validate stage has stored is_valid = False with a non-empty
\* validation_reason, and the run goes to the reject stage and no other.
C28_ValidationFailsClosed ==
    (Validated /\ ToolFails(Verdict)) =>
        /\ state["is_valid"] = PyBool(FALSE)
        /\ NonEmptyStr(state["validation_reason"])
        /\ pc \in {"route", "invalid_claim", "END"}
        /\ IsPrefix(trace, RejectPath)
        /\ pc = "END" => state["final_decision"] = PyStr("INVALID")

\* a rejected run whose validation reply could not be decoded
C28_Witness ==
    /\ pc = "END"
    /\ Validated
    /\ Verdict.kind = "garbage"
    /\ trace = RejectPath
    /\ state["final_reasoning"] = PyStr("Validation error: " \o ErrMsg)

\* C29: a run is on the accept branch only if is_valid is the boolean True.
C29_AcceptOnlyOnTrue ==
    (\E i \in DOMAIN AcceptPath : i >= 3 /\ (pc = AcceptPath[i] \/ Ran(AcceptPath[i])))
        => state["is_valid"] = PyBool(TRUE)

\* C30: a run that ended with final_decision = INVALID went through the
\* reject stage.
C30_InvalidOnlyFromReject ==
    (pc = "END" /\ state["final_decision"] = PyStr("INVALID")) => Ran("invalid_claim")

\* C26: every run ends, whether or not its collaborators answer.
C26_RunEndsDespiteSilence == <>RunEnded

\* C27: once the caller has cancelled the run, no stage returns any more
\* and nothing is written into the record.
C27_NoStageAfterCancel == [][cancelled => (trace' = trace /\ state' = state)]_vars

\* the record a run that has reached END holds when it runs alone on input
\* record and gets the replies llm from the completion service and the
\* outcomes of retr from the store
SoloRecord(record, llm, retr) ==
    LET parsed == parse_claim(llm[1])
        verdict == is_valid_query(llm[2])
        validated ==
            [record EXCEPT
                !["claim_id"] = Get(parsed, "claim_id"),
                !["policy_holder"] = Get(parsed, "policy_holder"),
                !["vendor_name"] = Get(parsed, "vendor_name"),
                !["invoice_items"] = Get(parsed, "invoice_items"),
                !["claim_amount"] = Get(parsed, "claim_amount"),
                !["is_valid"] = GetDefault(verdict, "is_valid", PyBool(FALSE)),
                !["validation_reason"] = GetDefault(verdict, "reason", PyStr("")),
                !["current_step"] = PyStr("completed")]
    IN IF should_continue_after_validation(validated) = "invalid"
       THEN [validated EXCEPT
                !["final_decision"] = PyStr("INVALID"),
                !["final_reasoning"] = validated["validation_reason"]]
       ELSE LET queries == generate_policy_queries(llm[3])
                outcomes == [i \in DOMAIN retr |-> retr[i].outcome]
                advice == generate_recommendation(llm[4])
                decision == finalize_decision(llm[5])
                amount == IF Truthy(validated["claim_amount"])
                          THEN validated["claim_amount"] ELSE PyNum(0)
            IN [validated EXCEPT
                   !["policy_queries"] = queries,
                   !["retrieved_policy_text"] =
                       PyStr(retrieve_policy_text(queries.l, outcomes)),
                   !["recommendation"] = Get(advice, "recommendation"),
                   !["recommendation_reasoning"] = Get(advice, "reasoning"),
                   !["price_check_result"] =
                       IF GreaterThan(amount, HighAmount)
                       THEN PyStr("HIGH_AMOUNT_FLAGGED")
                       ELSE PyStr("WITHIN_NORMAL_RANGE"),
                   !["final_decision"] = Get(decision, "final_decision"),
                   !["final_reasoning"] = Get(decision, "final_reasoning")]

\* a run alone: the record at END is SoloRecord of its input and replies
RunAloneGivesSoloRecord ==
    pc = "END" => state = SoloRecord(input, llm_log, retr_log)

\* C25: with two runs whose stages interleave in any order, the record each
\* run holds at END is the record it gives alone on its input and the
\* replies it got.
C25_RunsDoNotInterfere ==
    /\ pc = "END" => state = SoloRecord(input, llm_log, retr_log)
    /\ other.pc = "END" =>
         other.state = SoloRecord(other.input, other.llm_log, other.retr_log)

\* one run has ended on the accept branch with the other one, for another
\* claim, halfway through its stages
C25_Witness ==
    /\ pc = "END"
    /\ trace = AcceptPath
    /\ state["claim_json"] = PyStr(OtherClaimJson)
    /\ other.pc = "recommendation"
    /\ other.state["claim_json"] = PyStr(ClaimJson)
    /\ other.state["claim_amount"] # state["claim_amount"]

\* C31: once the retrieval stage has returned, if any call of the store
\* raised, retrieved_policy_text is the empty string, whatever the calls for
\* the earlier queries had returned, and the run goes on to the
\* recommendation stage.
C31_RetrievalAllOrNothing ==
    (Ran("retrieve_policy") /\ ~NoRetrieveRaised) =>
        /\ state["retrieved_policy_text"] = PyStr("")
        /\ retr_log[Len(retr_log)].outcome = "raise"
        /\ pc # "retrieve_policy"

\* the store answered the first query with text and raised on the second:
\* the text of the first is not kept
C31_Witness ==
    /\ Ran("retrieve_policy")
    /\ Len(retr_log) = 2
    /\ retr_log[1].outcome = "hit"
    /\ retr_log[2].outcome = "raise"
    /\ Len(state["policy_queries"].l) = 3
    /\ state["retrieved_policy_text"] = PyStr("")

====
